---- MODULE Spec2Model ----
(***************************************************************************)
(* Model of warmup/vm_instruments.py: merge_instr_data, ChartData, the     *)
(* HotSpotInstrumentParser (cumulative counters -> per-iteration seconds)  *)
(* and the PyPyInstrumentParser (event tree -> per-iteration GC time).     *)
(*                                                                         *)
(* Python values are encoded as follows.  None is the empty tuple, and a   *)
(* value that may be None is a tuple of length 0 or 1 (Some(v) = <<v>>).   *)
(* A dict is a record (the empty dict has the empty domain), a list is a   *)
(* sequence.  A Python float is an IEEE-754 double, kept as a sign, the    *)
(* 53 significand bits (most significant first) and a binary exponent.     *)
(***************************************************************************)
EXTENDS Integers, Sequences, FiniteSets, TLC

----------------------------------------------------------------------------
(* Python values *)

None == <<>>

Some(v) == <<v>>

EmptyDict == <<>>

\* A truth value that takes the empty dict for data.
TruthyNotNone(opt) == opt # None

\* Truth value of `instr_data if instr_data else None`: None and the empty
\* dict are false, every other dict is true.
Truthy(opt) == opt # None /\ DOMAIN opt[1] # {}

----------------------------------------------------------------------------
(* IEEE-754 double arithmetic, round-to-nearest-even *)

Precision == 53

Thousand == 1000

\* +0.0
DZero == [neg |-> FALSE, sig |-> <<>>, exp |-> 0]

RECURSIVE BitsOf(_)
\* The binary digits of a natural number, most significant first.
BitsOf(n) == IF n = 0 THEN <<>> ELSE Append(BitsOf(n \div 2), n % 2)

RECURSIVE NatOf(_)
\* The natural number written by a bit sequence (fewer than 31 bits).
NatOf(bits) ==
    IF bits = <<>> THEN 0
    ELSE 2 * NatOf(SubSeq(bits, 1, Len(bits) - 1)) + bits[Len(bits)]

Zeros(k) == [i \in 1..k |-> 0]

\* A bit sequence without its leading zeros.
Strip(bits) ==
    IF \A j \in 1..Len(bits) : bits[j] = 0 THEN <<>>
    ELSE LET first == CHOOSE j \in 1..Len(bits) :
                          bits[j] = 1 /\ \A k \in 1..(j - 1) : bits[k] = 0
         IN  SubSeq(bits, first, Len(bits))

\* Long naturals are handled in limbs of LimbBits bits, least significant
\* limb first, so that every intermediate value fits a machine integer.
LimbBits == Precision \div 3 + 1

LimbBase == 2 ^ LimbBits

ToLimbs(bits) ==
    LET L == Len(bits)
        n == (L + LimbBits - 1) \div LimbBits
    IN  [i \in 1..n |->
            LET lo == L - LimbBits * i + 1
            IN  NatOf(SubSeq(bits, IF lo < 1 THEN 1 ELSE lo,
                             L - LimbBits * (i - 1)))]

LimbToBits(limb) == Zeros(LimbBits - Len(BitsOf(limb))) \o BitsOf(limb)

RECURSIVE LimbsToBits(_)
LimbsToBits(limbs) ==
    IF limbs = <<>> THEN <<>>
    ELSE LimbToBits(limbs[Len(limbs)])
             \o LimbsToBits(SubSeq(limbs, 1, Len(limbs) - 1))

FromLimbs(limbs) == Strip(LimbsToBits(limbs))

\* bits + 1, for a bit sequence that is not all ones.
IncBits(bits) ==
    LET p == CHOOSE j \in 1..Len(bits) :
                 bits[j] = 0 /\ \A k \in (j + 1)..Len(bits) : bits[k] = 1
    IN  SubSeq(bits, 1, p - 1) \o <<1>> \o Zeros(Len(bits) - p)

\* Round the positive integer `bits` (leading bit 1) times 2^exp to a double.
RoundBits(neg, bits, exp) ==
    LET L == Len(bits) IN
    IF L <= Precision
    THEN [neg |-> neg, sig |-> bits \o Zeros(Precision - L),
          exp |-> exp - (Precision - L)]
    ELSE LET kept   == SubSeq(bits, 1, Precision)
             guard  == bits[Precision + 1]
             sticky == \E j \in (Precision + 2)..L : bits[j] = 1
             up     == guard = 1 /\ (sticky \/ kept[Precision] = 1)
             allOne == \A j \in 1..Precision : kept[j] = 1
         IN  IF ~up
             THEN [neg |-> neg, sig |-> kept, exp |-> exp + (L - Precision)]
             ELSE IF allOne
                  THEN [neg |-> neg, sig |-> <<1>> \o Zeros(Precision - 1),
                        exp |-> exp + (L - Precision) + 1]
                  ELSE [neg |-> neg, sig |-> IncBits(kept),
                        exp |-> exp + (L - Precision)]

\* float(n) for an integer n (exact: |n| < 2^53).
IntToDouble(n) ==
    IF n = 0 THEN DZero
    ELSE RoundBits(n < 0, BitsOf(IF n < 0 THEN -n ELSE n), 0)

FracLimbs == Precision \div LimbBits + 2

RECURSIVE DivFrac(_, _)
\* The first k limbs of the binary fraction rem/1000, most significant limb
\* first, followed by the remainder that is left.
DivFrac(rem, k) ==
    IF k = 0 THEN <<rem>>
    ELSE <<(rem * LimbBase) \div Thousand>>
             \o DivFrac((rem * LimbBase) % Thousand, k - 1)

\* n / 1000.0 for an integer n: the double nearest to the exact quotient.
\* The quotient is developed to FracLimbs limbs behind the binary point
\* (more than Precision + 1 significant bits, as n/1000 >= 2^-10); a last
\* bit records whether anything non-zero was cut off.
FDiv1000(n) ==
    IF n = 0 THEN DZero
    ELSE LET a    == IF n < 0 THEN -n ELSE n
             f    == DivFrac(a % Thousand, FracLimbs)
             frac == [i \in 1..FracLimbs |-> f[FracLimbs + 1 - i]]
             q    == Strip(BitsOf(a \div Thousand) \o LimbsToBits(frac))
             rest == IF f[FracLimbs + 1] = 0 THEN 0 ELSE 1
         IN  RoundBits(n < 0, Append(q, rest), -(FracLimbs * LimbBits) - 1)

RECURSIVE MulLimbs(_, _, _)
\* limbs * m + carry for a small natural m.
MulLimbs(limbs, m, carry) ==
    IF limbs = <<>> THEN IF carry = 0 THEN <<>> ELSE <<carry>>
    ELSE LET t == limbs[1] * m + carry
         IN  <<t % LimbBase>> \o MulLimbs(Tail(limbs), m, t \div LimbBase)

\* x * 1000 for a double x.
FMul1000(x) ==
    IF x.sig = <<>> THEN x
    ELSE RoundBits(x.neg, FromLimbs(MulLimbs(ToLimbs(x.sig), Thousand, 0)),
                   x.exp)

RECURSIVE AddLimbs(_, _, _)
\* a + b + carry for two limb sequences.
AddLimbs(a, b, carry) ==
    IF a = <<>> /\ b = <<>> THEN IF carry = 0 THEN <<>> ELSE <<carry>>
    ELSE LET t == (IF a = <<>> THEN 0 ELSE a[1])
                  + (IF b = <<>> THEN 0 ELSE b[1]) + carry
         IN  <<t % LimbBase>>
                 \o AddLimbs(IF a = <<>> THEN a ELSE Tail(a),
                             IF b = <<>> THEN b ELSE Tail(b), t \div LimbBase)

\* x + y for two doubles that are not negative.
FAdd(x, y) ==
    IF x.sig = <<>> THEN y
    ELSE IF y.sig = <<>> THEN x
    ELSE LET e  == IF x.exp < y.exp THEN x.exp ELSE y.exp
             xa == x.sig \o Zeros(x.exp - e)
             ya == y.sig \o Zeros(y.exp - e)
         IN  RoundBits(FALSE, FromLimbs(AddLimbs(ToLimbs(xa), ToLimbs(ya), 0)),
                       e)

\* The integer nearest to a double x >= 0 (ties to even), for x < 2^30.
NearestInt(x) ==
    IF x.sig = <<>> THEN 0
    ELSE LET d == -x.exp
             L == Len(x.sig)
         IN  IF d <= 0 THEN NatOf(x.sig \o Zeros(-d))
             ELSE IF d > L THEN 0
             ELSE LET ip    == NatOf(SubSeq(x.sig, 1, L - d))
                      guard == x.sig[L - d + 1]
                      rest  == \E j \in (L - d + 2)..L : x.sig[j] = 1
                  IN  IF guard = 1 /\ (rest \/ ip % 2 = 1) THEN ip + 1 ELSE ip

----------------------------------------------------------------------------
(* State *)

VARIABLES
    which,                 \* the entry point exercised: "merge", "hotspot", "pypy"
    pc,                    \* "new", "done" or "error"
    arg,                   \* the argument: file_data, or the constructor's instr_data
    vm,                    \* self.vm
    instr_data,            \* self.instr_data
    chart_data,            \* self.chart_data
    calls,                 \* number of parse_instr_data calls made so far
    ret,                   \* <<>> before any return, <<v>> once a call returned v
    err,                   \* "" or the name of the exception that was raised
    jit_cumulative_times,  \* HotSpot: local of parse_instr_data
    gc_cumulative_times,   \* HotSpot: local of parse_instr_data
    iterations,            \* PyPy: local of parse_instr_data
    warnings               \* PyPy: the event types reported on standard output

vars == <<which, pc, arg, vm, instr_data, chart_data, calls, ret, err,
          jit_cumulative_times, gc_cumulative_times,
          iterations, warnings>>

parserVars == <<vm, instr_data, chart_data, calls>>

hotspotVars == <<jit_cumulative_times, gc_cumulative_times>>

pypyVars == <<iterations, warnings>>

ChartData(title, data, legend_text) ==
    [title |-> title, data |-> data, legend_text |-> legend_text]

----------------------------------------------------------------------------
(* merge_instr_data *)

MaxFiles == 2

MaxEvents == 2

\* The raw events of the input files, opaque to merge_instr_data.
EventLog == <<"a", "b", "c">>

RECURSIVE SeqsUpTo(_, _)
\* The sequences over S of length at most n.
SeqsUpTo(S, n) ==
    IF n = 0 THEN {<<>>}
    ELSE LET shorter == SeqsUpTo(S, n - 1)
         IN  shorter \cup {Append(q, x) : q \in {r \in shorter : Len(r) = n - 1},
                                          x \in S}

\* The values of raw_vm_events of one file: the stretches of the log of at
\* most MaxEvents events.
EventLists ==
    {SubSeq(EventLog, i, j) : i \in 1..(Len(EventLog) + 1),
                              j \in 0..Len(EventLog)}
        \cap SeqsUpTo({EventLog[i] : i \in 1..Len(EventLog)}, MaxEvents)

\* The dicts handed to merge_instr_data: with or without 'raw_vm_events'.
MergeDicts == {EmptyDict} \cup {[raw_vm_events |-> ev] : ev \in EventLists}

MergeArgs == SeqsUpTo(MergeDicts, MaxFiles)

RECURSIVE MergeLoop(_, _, _)

\* The loop of lines 10-11 with extend in the place of append.
MergeLoopExtend(file_data, k, acc) ==
    IF k > Len(file_data) THEN <<"", acc>>
    ELSE IF "raw_vm_events" \notin DOMAIN file_data[k] THEN <<"KeyError", acc>>
    ELSE MergeLoop(file_data, k + 1,
                   [acc EXCEPT !.raw_vm_events =
                                   @ \o file_data[k].raw_vm_events])

\* The loop of lines 10-11 from position k on; the result is
\* <<exception name, instr_data>>.
MergeLoop(file_data, k, acc) ==
    IF k > Len(file_data) THEN <<"", acc>>
    ELSE IF "raw_vm_events" \notin DOMAIN file_data[k] THEN <<"KeyError", acc>>
    ELSE MergeLoop(file_data, k + 1,
                   [acc EXCEPT !.raw_vm_events =
                                   Append(@, file_data[k].raw_vm_events)])

merge_instr_data ==
    /\ which = "merge"
    /\ pc = "new"
    /\ LET out == MergeLoop(arg, 1, [raw_vm_events |-> <<>>])
       IN  IF out[1] = ""
           THEN /\ pc' = "done"
                /\ ret' = Some(out[2])
                /\ err' = err
           ELSE /\ pc' = "error"
                /\ ret' = ret
                /\ err' = out[1]
    /\ UNCHANGED <<which, arg, parserVars, hotspotVars, pypyVars>>

----------------------------------------------------------------------------
(* HotSpotInstrumentParser *)

MaxIter == 2

MaxCollectors == 2

\* The cumulative compilation time of the first iteration, and its
\* increments in the later ones, in milliseconds.
JitFirst == {17, 1001}

JitDeltas == {0, 25}

\* <<cumuCollectTime, cumuCollectCount>> of a collector.
Readings == {<<0, 0>>, <<5, 1>>}

Collectors ==
    {<<"PS Scavenge", <<"PS Eden Space", "PS Survivor Space">>, r[1], r[2]>> :
        r \in Readings}

\* The values of collectorInfo: at most MaxCollectors collectors, listed in
\* the order of their readings.
CollectorInfos ==
    {cs \in SeqsUpTo(Collectors, MaxCollectors) :
        \A j \in 1..(Len(cs) - 1) : cs[j][3] <= cs[j + 1][3]}

RECURSIVE HotSpotRuns(_)
\* The record lists [iterNum, cumuCompTime, collectorInfo] of n iterations.
HotSpotRuns(n) ==
    IF n = 0 THEN {<<>>}
    ELSE IF n = 1 THEN {<<(<<0, c, cs>>)>> : c \in JitFirst, cs \in CollectorInfos}
    ELSE {Append(r, <<n - 1, r[n - 1][2] + d, cs>>) :
             r \in HotSpotRuns(n - 1), d \in JitDeltas, cs \in CollectorInfos}

HotSpotArgs ==
    {None, Some(EmptyDict), Some([jit_times |-> <<>>])}
        \cup {Some([raw_vm_events |-> ev]) :
                 ev \in UNION {HotSpotRuns(n) : n \in 0..MaxIter}}

\* Line 69.
JitCumulative(raw_events) ==
    [i \in 1..Len(raw_events) |-> raw_events[i][2]]

RECURSIVE GcIteration(_)
\* Lines 73-75: the sum of collector[-1] over the collectors of a record.
GcIteration(collectors) ==
    IF collectors = <<>> THEN 0
    ELSE LET collector == collectors[Len(collectors)]
         IN  GcIteration(SubSeq(collectors, 1, Len(collectors) - 1))
                 + collector[Len(collector)]

\* Lines 70-76.
GcCumulative(raw_events) ==
    [i \in 1..Len(raw_events) |-> GcIteration(raw_events[i][3])]

RECURSIVE NonCumulative(_, _, _, _)

\* Lines 83-87 without the subtraction of the last cumulative time.
NonCumulativeNoLast(cumulative, k, last, secs) ==
    IF k > Len(cumulative) THEN secs
    ELSE NonCumulative(cumulative, k + 1, cumulative[k],
                       Append(secs, FDiv1000(cumulative[k])))

\* Lines 83-87 for one series, from position k on.
NonCumulative(cumulative, k, last, secs) ==
    IF k > Len(cumulative) THEN secs
    ELSE NonCumulative(cumulative, k + 1, cumulative[k],
                       Append(secs, FDiv1000(cumulative[k] - last)))

\* Lines 79-87 for one series with at least one sample.
TimesSecs(cumulative) ==
    NonCumulative(cumulative, 2, cumulative[1], <<FDiv1000(cumulative[1])>>)

\* HotSpotInstrumentParser.parse_instr_data on self.instr_data = data.
HotSpotParse(data) ==
    IF data = None
    THEN /\ pc' = "done"
         /\ ret' = Some(None)
         /\ UNCHANGED <<err, chart_data, hotspotVars>>
    ELSE IF "raw_vm_events" \notin DOMAIN data[1]
    THEN /\ pc' = "error"
         /\ err' = "KeyError"
         /\ UNCHANGED <<ret, chart_data, hotspotVars>>
    ELSE LET raw_events == data[1].raw_vm_events
         IN  /\ jit_cumulative_times' = JitCumulative(raw_events)
             /\ gc_cumulative_times' = GcCumulative(raw_events)
             /\ IF Len(raw_events) = 0
                THEN /\ pc' = "error"
                     /\ err' = "IndexError"
                     /\ UNCHANGED <<ret, chart_data>>
                ELSE /\ pc' = "done"
                     /\ ret' = Some(None)
                     /\ err' = err
                     /\ chart_data' = Some(
                          <<ChartData("GC (secs)",
                                      TimesSecs(GcCumulative(raw_events)),
                                      "GC events"),
                            ChartData("JIT (secs)",
                                      TimesSecs(JitCumulative(raw_events)),
                                      "JIT compilation")>>)

HotSpotInit ==
    /\ which = "hotspot"
    /\ pc = "new"
    /\ vm' = "Hotspot"
    /\ instr_data' = IF Truthy(arg) THEN arg ELSE None
    /\ calls' = 1
    /\ HotSpotParse(instr_data')
    /\ UNCHANGED <<which, arg, pypyVars>>

MaxCalls == 2

\* A call of parse_instr_data on the constructed parser.
HotSpotParseInstrData ==
    /\ which = "hotspot"
    /\ pc = "done"
    /\ calls < MaxCalls
    /\ calls' = calls + 1
    /\ HotSpotParse(instr_data)
    /\ UNCHANGED <<which, arg, vm, instr_data, pypyVars>>

----------------------------------------------------------------------------
(* PyPyInstrumentParser *)

\* Event types are strings, kept as character sequences for startswith.
GcPrefix == <<"g", "c", "-">>

JitPrefix == <<"j", "i", "t", "-">>

Root == <<"r", "o", "o", "t">>

GcMinor == GcPrefix \o <<"m", "i", "n", "o", "r">>

JitTracing == JitPrefix \o <<"t", "r", "a", "c", "i", "n", "g">>

OtherX == <<"o", "t", "h", "e", "r", "-", "X">>

\* str.startswith
StartsWith(str, prefix) ==
    /\ Len(str) >= Len(prefix)
    /\ SubSeq(str, 1, Len(prefix)) = prefix

\* A node is the list [event_type, start_time, stop_time, children].
EventType(node) == node[1]

StartTime(node) == node[2]

StopTime(node) == node[3]

Children(node) == node[4]

MaxTime == 2

MaxSize == 4

\* <<start_time, stop_time>> of a timed event.
Spans == {<<Some(s), Some(MaxTime)>> : s \in 0..1}

\* <<event_type, start_time, stop_time>> of the timed events that the
\* parser accounts for or reports.
TimedLabels == {<<ty, sp[1], sp[2]>> : ty \in {GcMinor, OtherX}, sp \in Spans}

\* The same, with tracing events and with nodes that break the record
\* shape: a nested node called root, a node without start or stop time.
AllLabels ==
    TimedLabels
        \cup {<<JitTracing, Some(1), Some(MaxTime)>>,
              <<Root, Some(0), Some(MaxTime)>>,
              <<GcMinor, None, Some(MaxTime)>>,
              <<OtherX, Some(0), None>>}

\* <<start_time, stop_time>> of a top-level node: the root sentinel, and the
\* stamps that break it.
RootSentinel == {<<None, None>>}

RootStamps == RootSentinel \cup {<<Some(0), None>>, <<None, Some(MaxTime)>>,
                                 <<Some(0), Some(0)>>}

\* The event trees of exactly n nodes with their children drawn from the
\* table `below` (below[k + 1]: the event lists of k nodes in total).
TreesOf(labels, n, below) ==
    {<<lab[1], lab[2], lab[3], kids>> : lab \in labels, kids \in below[n]}

RECURSIVE ForestsUpTo(_, _)
\* ForestsUpTo(labels, n)[k + 1] is the set of event lists that have k <= n
\* nodes in total: a first tree of j nodes followed by a list of k - j nodes.
ForestsUpTo(labels, n) ==
    IF n = 0 THEN <<{<<>>}>>
    ELSE LET below == ForestsUpTo(labels, n - 1)
         IN  Append(below,
                    UNION {{<<tree>> \o rest :
                               tree \in TreesOf(labels, j, below),
                               rest \in below[n - j + 1]} : j \in 1..n})

\* The lists of one top-level node, with at most i - 1 nodes below it, in
\* front of a list of the table `fewer`; i - 1 nodes below them in total.
RunsEntry(stamps, forests, fewer, i) ==
    UNION {{<<(<<Root, st[1], st[2], kids>>)>> \o rest :
               st \in stamps, kids \in forests[k + 1],
               rest \in fewer[i - k]} : k \in 0..(i - 1)}

RECURSIVE RootRuns(_, _, _, _)
\* RootRuns(stamps, forests, size, r)[n + 1] is the set of lists of r
\* top-level nodes that have n < size nodes below them in total.
RootRuns(stamps, forests, size, r) ==
    IF r = 0 THEN [i \in 1..size |-> IF i = 1 THEN {<<>>} ELSE {}]
    ELSE LET fewer == RootRuns(stamps, forests, size, r - 1)
         IN  [i \in 1..size |-> RunsEntry(stamps, forests, fewer, i)]

\* The lists of top-level nodes of at most `size` nodes, top-level nodes
\* included.
RunsUpTo(stamps, labels, size) ==
    LET forests == ForestsUpTo(labels, size - 1)
    IN  UNION {LET runs == RootRuns(stamps, forests, size, r)
               IN  UNION {runs[n + 1] : n \in 0..(size - r)} : r \in 1..size}

\* The values of raw_vm_events: well-formed lists of up to MaxSize nodes, and
\* lists of up to MaxSize - 1 nodes of any kind.
PyPyEvents ==
    RunsUpTo(RootSentinel, TimedLabels, MaxSize)
        \cup RunsUpTo(RootStamps, AllLabels, MaxSize - 1)

\* The externally computed JIT time of each iteration.
JitTimes(r) == [i \in 1..r |-> 3 * i]

PyPyArgs ==
    {None, Some(EmptyDict), Some([jit_times |-> <<>>]),
     Some([raw_vm_events |-> <<>>]),
     Some([raw_vm_events |-> <<>>, jit_times |-> <<>>])}
        \cup {Some([raw_vm_events |-> ev, jit_times |-> JitTimes(Len(ev))]) :
                 ev \in PyPyEvents}

RECURSIVE ParseNode(_, _)
RECURSIVE ParseChildren(_, _, _, _)

\* PyPyInstrumentParser._parse_node(node, info).  st holds info, the lines
\* printed so far and the exception raised, if any; the result is st as the
\* call leaves it, with the value returned.
ParseNode(node, st) ==
    IF EventType(node) = Root
    THEN [st |-> [st EXCEPT !.err = "AssertionError"], ret |-> 0]
    ELSE LET c == ParseChildren(Children(node), 1, 0, st)
         IN  IF c.st.err # "" THEN [st |-> c.st, ret |-> 0]
             ELSE IF StartTime(node) = None \/ StopTime(node) = None
             THEN [st |-> [c.st EXCEPT !.err = "TypeError"], ret |-> 0]
             ELSE LET gross_time == StopTime(node)[1] - StartTime(node)[1]
                      net_time   == gross_time - c.child_time
                  IN  IF StartsWith(EventType(node), GcPrefix)
                      THEN [st  |-> [c.st EXCEPT !.info.gc = @ + net_time],
                            ret |-> net_time]
                      ELSE IF StartsWith(EventType(node), JitPrefix)
                      THEN IF "jit" \in DOMAIN c.st.info
                           THEN [st  |-> [c.st EXCEPT !.info.jit = @ + net_time],
                                 ret |-> net_time]
                           ELSE [st  |-> [c.st EXCEPT !.err = "KeyError"],
                                 ret |-> 0]
                      ELSE [st  |-> [c.st EXCEPT
                                        !.out = Append(@, EventType(node))],
                            ret |-> net_time]

\* The loop over the children without the sum of the returned net times.
ParseChildrenNoSum(children, k, child_time, st) ==
    IF k > Len(children) \/ st.err # ""
    THEN [st |-> st, child_time |-> child_time]
    ELSE LET r == ParseNode(children[k], st)
         IN  ParseChildren(children, k + 1, child_time, r.st)

\* The loop over the children (lines 125-126, and lines 111-112 where the
\* returned values are not used) from position k on.
ParseChildren(children, k, child_time, st) ==
    IF k > Len(children) \/ st.err # ""
    THEN [st |-> st, child_time |-> child_time]
    ELSE LET r == ParseNode(children[k], st)
         IN  ParseChildren(children, k + 1, child_time + r.ret, r.st)

RECURSIVE PyPyLoop(_, _, _, _)
\* The loop of lines 107-113 from position k on: the GC values collected,
\* the lines printed and the exception raised, if any.
PyPyLoop(raw_vm_events, k, gc, out) ==
    IF k > Len(raw_vm_events) THEN [gc |-> gc, out |-> out, err |-> ""]
    ELSE LET node == raw_vm_events[k]
         IN  IF ~(StartTime(node) = StopTime(node) /\ StopTime(node) = None)
             THEN [gc |-> gc, out |-> out, err |-> "AssertionError"]
             ELSE LET c == ParseChildren(Children(node), 1, 0,
                              [info |-> [gc |-> 0], out |-> out, err |-> ""])
                  IN  IF c.st.err # ""
                      THEN [gc |-> gc, out |-> c.st.out, err |-> c.st.err]
                      ELSE PyPyLoop(raw_vm_events, k + 1,
                                    Append(gc, c.st.info.gc), c.st.out)

\* PyPyInstrumentParser.parse_instr_data on self.instr_data = data.
PyPyParse(data) ==
    IF data = None
    THEN /\ pc' = "done"
         /\ ret' = Some(None)
         /\ UNCHANGED <<err, chart_data, pypyVars>>
    ELSE IF "raw_vm_events" \notin DOMAIN data[1]
    THEN /\ pc' = "error"
         /\ err' = "KeyError"
         /\ iterations' = [gc |-> <<>>, jit |-> None]
         /\ UNCHANGED <<ret, chart_data, warnings>>
    ELSE LET loop == PyPyLoop(data[1].raw_vm_events, 1, <<>>, warnings)
         IN  /\ warnings' = loop.out
             /\ IF loop.err # ""
                THEN /\ pc' = "error"
                     /\ err' = loop.err
                     /\ iterations' = [gc |-> loop.gc, jit |-> None]
                     /\ UNCHANGED <<ret, chart_data>>
                ELSE IF "jit_times" \notin DOMAIN data[1]
                THEN /\ pc' = "error"
                     /\ err' = "KeyError"
                     /\ iterations' = [gc |-> loop.gc, jit |-> None]
                     /\ UNCHANGED <<ret, chart_data>>
                ELSE /\ pc' = "done"
                     /\ ret' = Some(None)
                     /\ err' = err
                     /\ iterations' = [gc  |-> loop.gc,
                                       jit |-> Some(data[1].jit_times)]
                     /\ chart_data' = Some(
                          <<ChartData("GC", loop.gc, "GC events"),
                            ChartData("JIT", data[1].jit_times,
                                      "JIT tracing")>>)

PyPyInit ==
    /\ which = "pypy"
    /\ pc = "new"
    /\ vm' = "PyPy"
    /\ instr_data' = IF Truthy(arg) THEN arg ELSE None
    /\ calls' = 1
    /\ PyPyParse(instr_data')
    /\ UNCHANGED <<which, arg, hotspotVars>>

\* A call of parse_instr_data on the constructed parser.
PyPyParseInstrData ==
    /\ which = "pypy"
    /\ pc = "done"
    /\ calls < MaxCalls
    /\ calls' = calls + 1
    /\ PyPyParse(instr_data)
    /\ UNCHANGED <<which, arg, vm, instr_data, hotspotVars>>

----------------------------------------------------------------------------
(* Specification *)

Init ==
    /\ which \in {"merge", "hotspot", "pypy"}
    /\ arg \in CASE which = "merge" -> MergeArgs
                 [] which = "hotspot" -> HotSpotArgs
                 [] which = "pypy" -> PyPyArgs
    /\ pc = "new"
    /\ vm = ""
    /\ instr_data = None
    /\ chart_data = None
    /\ calls = 0
    /\ ret = <<>>
    /\ err = ""
    /\ jit_cumulative_times = <<>>
    /\ gc_cumulative_times = <<>>
    /\ iterations = [gc |-> <<>>, jit |-> None]
    /\ warnings = <<>>

Next ==
    \/ merge_instr_data
    \/ HotSpotInit
    \/ HotSpotParseInstrData
    \/ PyPyInit
    \/ PyPyParseInstrData

Spec == Init /\ [][Next]_vars

----------------------------------------------------------------------------
(* Properties *)

Returned == pc # "new"

RECURSIVE SumSeq(_)
SumSeq(q) == IF q = <<>> THEN 0 ELSE q[1] + SumSeq(Tail(q))

HotSpotParsed == which = "hotspot" /\ pc = "done" /\ instr_data # None

\* raw_vm_events of a HotSpot argument that was parsed.
HotSpotEvents == arg[1].raw_vm_events

GcSeries == chart_data[1][1].data

JitSeries == chart_data[1][2].data

\* The cumulative collect time of the collectors of one record: the third
\* field of (name, pools, cumuCollectTime, cumuCollectCount).
CollectTime(record) == SumSeq([j \in 1..Len(record[3]) |-> record[3][j][3]])

\* The first difference of a cumulative series, scaled to seconds.
FirstDifference(cumulative) ==
    [i \in 1..Len(cumulative) |->
        FDiv1000(cumulative[i] - (IF i = 1 THEN 0 ELSE cumulative[i - 1]))]

ScenarioArg ==
    Some([raw_vm_events |->
            <<(<<0, 17, <<(<<"PS Scavenge",
                            <<"PS Eden Space", "PS Survivor Space">>, 0, 0>>)>> >>),
              (<<1, 42, <<(<<"PS Scavenge",
                            <<"PS Eden Space", "PS Survivor Space">>, 5, 1>>)>> >>)>>])

\* C1: after HotSpot's parse of N >= 1 records, the GC value of iteration i
\* before differencing is the sum of the cumulative collect times of the
\* collectors of record i, the GC series is the first difference of that sum
\* in seconds, and the scenario [[0,17,[..,0,0]],[1,42,[..,5,1]]] yields the
\* JIT series [0.017, 0.025] and the GC series [0.0, 0.005].
C1_GcIsSumOfCollectTime ==
    HotSpotParsed =>
        /\ \A i \in 1..Len(HotSpotEvents) :
               gc_cumulative_times[i] = CollectTime(HotSpotEvents[i])
        /\ GcSeries = FirstDifference([i \in 1..Len(HotSpotEvents) |->
                                          CollectTime(HotSpotEvents[i])])
        /\ arg = ScenarioArg =>
               /\ JitSeries = <<FDiv1000(17), FDiv1000(25)>>
               /\ GcSeries = <<FDiv1000(0), FDiv1000(5)>>

EmptySeries ==
    Some(<<ChartData("GC (secs)", <<>>, "GC events"),
           ChartData("JIT (secs)", <<>>, "JIT compilation")>>)

\* C2: HotSpot's constructor on a record set with an empty raw_vm_events
\* raises no error and leaves the GC and JIT chart entries with empty series.
C2_EmptyRunParses ==
    (which = "hotspot" /\ Returned /\ arg = Some([raw_vm_events |-> <<>>])) =>
        /\ pc = "done"
        /\ err = ""
        /\ chart_data = EmptySeries

RECURSIVE PrefixMs(_, _)
\* The sum of the first i samples, each times 1000, in floating point.
PrefixMs(secs, i) ==
    IF i = 0 THEN DZero ELSE FAdd(PrefixMs(secs, i - 1), FMul1000(secs[i]))

\* The sample times 1000, rounded to the nearest integer.
RoundedMs(sec) == NearestInt(FMul1000(sec))

\* C3 as stated: for N >= 1 and a non-decreasing cumulative JIT series c, the
\* JIT series has length N and the sum of its first i+1 samples, each times
\* 1000, equals c[i] exactly.
C3_RoundTripExact ==
    HotSpotParsed =>
        /\ Len(JitSeries) = Len(HotSpotEvents)
        /\ \A i \in 1..Len(HotSpotEvents) :
               PrefixMs(JitSeries, i) = IntToDouble(HotSpotEvents[i][2])

\* C3 as amended: for N >= 1 and a non-decreasing cumulative JIT series c,
\* the JIT series has length N, sample i times 1000 rounded to the nearest
\* integer is c[i] - c[i-1] (c[0] for the first), and the sum of the first
\* i+1 rounded values is c[i].
C3_RoundTripRounded ==
    HotSpotParsed =>
        /\ Len(JitSeries) = Len(HotSpotEvents)
        /\ \A i \in 1..Len(HotSpotEvents) :
               /\ RoundedMs(JitSeries[i])
                      = HotSpotEvents[i][2]
                            - (IF i = 1 THEN 0 ELSE HotSpotEvents[i - 1][2])
               /\ SumSeq([j \in 1..i |-> RoundedMs(JitSeries[j])])
                      = HotSpotEvents[i][2]

\* Two iterations were parsed, the second sample is not zero and the first
\* sample times 1000 is not the integer it came from.
C3_Witness ==
    /\ HotSpotParsed
    /\ Len(HotSpotEvents) = 2
    /\ HotSpotEvents[2][2] > HotSpotEvents[1][2]
    /\ FMul1000(JitSeries[1]) # IntToDouble(HotSpotEvents[1][2])

PyPyParsed == which = "pypy" /\ pc = "done" /\ instr_data # None

\* raw_vm_events of a PyPy argument that has them.
PyPyRoots == arg[1].raw_vm_events

HasEvents == arg # None /\ "raw_vm_events" \in DOMAIN arg[1]

Gross(node) == StopTime(node)[1] - StartTime(node)[1]

IsGc(node) == StartsWith(EventType(node), GcPrefix)

IsJit(node) == StartsWith(EventType(node), JitPrefix)

RECURSIVE Below(_)
\* The nodes below a node, at any depth.
Below(node) ==
    UNION {{Children(node)[j]} \cup Below(Children(node)[j]) :
              j \in 1..Len(Children(node))}

RECURSIVE Net(_)
\* The net time of a node: its gross time minus the net times of its
\* children.
Net(node) ==
    Gross(node) - SumSeq([j \in 1..Len(Children(node)) |->
                             Net(Children(node)[j])])

\* The exclusive duration of a node: its gross time minus the gross times
\* of its children.
Exclusive(node) ==
    Gross(node) - SumSeq([j \in 1..Len(Children(node)) |->
                             Gross(Children(node)[j])])

RECURSIVE GcTotal(_, _)
\* The sum of T(n) over the nodes n below `node` that are gc- events, each
\* counted where it occurs.
GcTotal(T(_), node) ==
    SumSeq([j \in 1..Len(Children(node)) |->
               (IF IsGc(Children(node)[j]) THEN T(Children(node)[j]) ELSE 0)
                   + GcTotal(T, Children(node)[j])])

\* The total gross duration of the top-level child events of a root.
RootGross(root) ==
    SumSeq([j \in 1..Len(Children(root)) |-> Gross(Children(root)[j])])

\* C4: in every iteration whose nodes all have a non-negative net time, the
\* GC value does not exceed the total gross duration of the root's top-level
\* children.
C4_GcWithinRootGross ==
    PyPyParsed =>
        \A k \in 1..Len(PyPyRoots) :
            (\A n \in Below(PyPyRoots[k]) : Net(n) >= 0)
                => iterations.gc[k] <= RootGross(PyPyRoots[k])

\* C5: parsing is not stopped by events that are neither gc- nor jit-; the
\* GC value of an iteration is the sum of the net times of its gc- nodes and
\* of no other node, where the net time of a node is its gross time minus
\* the net times returned by all of its children, whatever their type.
C5_Classification ==
    PyPyParsed =>
        /\ Len(iterations.gc) = Len(PyPyRoots)
        /\ \A k \in 1..Len(PyPyRoots) :
               iterations.gc[k] = GcTotal(Net, PyPyRoots[k])

\* A gc- event with a child that is neither gc- nor jit- and a gc- event
\* next to it were parsed.
C5_Witness ==
    /\ PyPyParsed
    /\ \E k \in 1..Len(PyPyRoots) :
           /\ Len(Children(PyPyRoots[k])) = 2
           /\ \E n \in {Children(PyPyRoots[k])[1]} :
                  /\ IsGc(n)
                  /\ Len(Children(n)) = 1
                  /\ EventType(Children(n)[1]) = OtherX
                  /\ Net(Children(n)[1]) > 0
           /\ IsGc(Children(PyPyRoots[k])[2])
           /\ iterations.gc[k] > 0
    /\ warnings # <<>>

\* C6: merge_instr_data of K record sets that all have raw_vm_events returns
\* the K values of raw_vm_events in input order, each unchanged; it fails
\* only if an input lacks raw_vm_events, and then with a KeyError.
C6_MergeKeepsInputs ==
    (which = "merge" /\ Returned) =>
        IF \A k \in 1..Len(arg) : "raw_vm_events" \in DOMAIN arg[k]
        THEN /\ pc = "done"
             /\ err = ""
             /\ ret = Some([raw_vm_events |->
                              [k \in 1..Len(arg) |-> arg[k].raw_vm_events]])
        ELSE /\ pc = "error"
             /\ err = "KeyError"
             /\ ret = <<>>

\* merge([{raw_vm_events:[a]}, {raw_vm_events:[b,c]}]) has returned.
C6_Witness ==
    /\ which = "merge"
    /\ arg = <<[raw_vm_events |-> <<"a">>], [raw_vm_events |-> <<"b", "c">>]>>
    /\ ret = Some([raw_vm_events |-> << <<"a">>, <<"b", "c">> >>])

\* C7: for both parsers, construction from None or from the empty record set
\* raises no error and leaves chart_data None, and every later call of
\* parse_instr_data returns None and leaves chart_data None.
C7_AbsentInput ==
    (which \in {"hotspot", "pypy"} /\ Returned
        /\ arg \in {None, Some(EmptyDict)}) =>
        /\ pc = "done"
        /\ err = ""
        /\ instr_data = None
        /\ chart_data = None
        /\ chart_data # Some(<<>>)
        /\ ret = Some(None)

\* A PyPy parser built from the empty record set was asked to parse again.
C7_Witness ==
    /\ which = "pypy"
    /\ arg = Some(EmptyDict)
    /\ calls = MaxCalls
    /\ chart_data = None

RootIsSet(root) == StartTime(root) # None \/ StopTime(root) # None

Unset(node) == StartTime(node) = None \/ StopTime(node) = None

\* C8: PyPy's parse of an input with a top-level node whose start or stop
\* time is set, or with a node below the top level whose start or stop time
\* is unset, raises an AssertionError and produces no chart data.
C8_StructuralAssertion ==
    (which = "pypy" /\ Returned /\ HasEvents
        /\ \E k \in 1..Len(PyPyRoots) :
               \/ RootIsSet(PyPyRoots[k])
               \/ \E n \in Below(PyPyRoots[k]) : Unset(n)) =>
        /\ pc = "error"
        /\ err = "AssertionError"
        /\ chart_data = None

\* Every top-level node is a root sentinel and every node below is a timed
\* event that is not called root.
WellFormed(roots) ==
    \A k \in 1..Len(roots) :
        /\ ~RootIsSet(roots[k])
        /\ \A n \in Below(roots[k]) : ~Unset(n) /\ EventType(n) # Root

\* C9: PyPy's parse of a well-formed input with one or more jit- nodes
\* completes without error, the GC series is what the gc- nodes alone give,
\* and the data of the JIT chart entry is jit_times unchanged.
C9_JitNodesParse ==
    (which = "pypy" /\ Returned /\ HasEvents /\ "jit_times" \in DOMAIN arg[1]
        /\ WellFormed(PyPyRoots)
        /\ \E k \in 1..Len(PyPyRoots) :
               \E n \in Below(PyPyRoots[k]) : IsJit(n)) =>
        /\ pc = "done"
        /\ err = ""
        /\ chart_data[1][1].data
               = [k \in 1..Len(PyPyRoots) |-> GcTotal(Net, PyPyRoots[k])]
        /\ chart_data[1][2].data = arg[1].jit_times

\* C10: the net time added to the GC value for a gc- node is the node's
\* exclusive duration, its gross duration minus the gross durations of its
\* direct children: the GC value of an iteration is the sum of the exclusive
\* durations of its gc- nodes.
C10_NetIsExclusive ==
    PyPyParsed =>
        \A k \in 1..Len(PyPyRoots) :
            iterations.gc[k] = GcTotal(Exclusive, PyPyRoots[k])

====
